---- MODULE Spec2Model ----
(***************************************************************************)
(* Model of the agent_evals evaluation harness: the extraction layer       *)
(* (backend/utils.py), the run-history recorder (backend/history.py) and   *)
(* the two evaluation drivers (backend/handoff_eval.py,                    *)
(* backend/tool_eval.py).                                                  *)
(***************************************************************************)
EXTENDS Integers, Sequences, FiniteSets, TLC

\* ------------------------------------------------------------------ bounds
\* Total number of run items in new_items and all_items together.
MaxItems == 3
\* Number of cases in a dataset.
MaxCases == 2
\* Number of evaluation runs started in one process.
MaxRuns == 2

\* ------------------------------------------------------- Python values
\* An attribute the object does not have (hasattr is False).
ABSENT == "<absent>"
\* The Python value None.
NONE == "<None>"
\* An object (agent, raw item, call) that carries no name attribute.
NONAME == "<object without name>"

\* Python truthiness of a name value read with getattr(..., None).
Truthy(v) == v \notin {ABSENT, NONE, NONAME, ""}

\* hasattr(item, f)
HasAttr(item, f) == item[f] # ABSENT

\* getattr(item, f, None)
GetAttr(item, f) == IF item[f] = ABSENT THEN NONE ELSE item[f]

\* getattr(obj, "name", None) for a sub-object held by its name
ObjName(obj) == IF obj \in {ABSENT, NONE, NONAME} THEN NONE ELSE obj

\* getattr(obj, "name", "Unknown") for an agent reference held by its name
NameOrUnknown(obj) == IF obj \in {ABSENT, NONE, NONAME} THEN "Unknown" ELSE obj

\* ------------------------------------------------------------ run items
\* A run item: its class, and the attributes the extraction layer probes.
\* Sub-objects (target_agent, raw_item, function_call, tool_call) are held by
\* the value of their name attribute, NONAME when they have none.
Item(cls, type, target, raw, fn, name, fc, tc) ==
    [cls |-> cls, type |-> type, target_agent |-> target, raw_item |-> raw,
     function_name |-> fn, name |-> name, function_call |-> fc, tool_call |-> tc]

MessageItem == Item("MessageOutputItem", "message_output_item", ABSENT, NONAME, ABSENT, ABSENT, ABSENT, ABSENT)
HandoffOperational == Item("HandoffOutputItem", "handoff_output_item", "Operational", NONAME, ABSENT, ABSENT, ABSENT, ABSENT)
HandoffNoTarget == Item("HandoffOutputItem", "handoff_output_item", NONE, NONAME, ABSENT, ABSENT, ABSENT, ABSENT)
DuckHandoffNamed == Item("Other", ABSENT, "Informational", ABSENT, ABSENT, "transfer_to_informational", ABSENT, ABSENT)
DuckHandoffAnonymous == Item("Other", ABSENT, NONAME, ABSENT, ABSENT, ABSENT, ABSENT, ABSENT)
DuckHandoffFunction == Item("Other", ABSENT, "Operational", ABSENT, "transfer_to_operational", "transfer_to_operational", ABSENT, ABSENT)
ToolCallPay == Item("ToolCallItem", "tool_call_item", ABSENT, "pay_bill", ABSENT, ABSENT, ABSENT, ABSENT)
ToolCallUnnamed == Item("ToolCallItem", "tool_call_item", ABSENT, NONAME, "transfer_funds", ABSENT, ABSENT, ABSENT)
OutputPay == Item("FunctionCallOutputItem", "function_call_output_item", ABSENT, NONAME, NONE, "pay_bill", ABSENT, ABSENT)
FunctionCallUpdate == Item("Other", ABSENT, ABSENT, ABSENT, ABSENT, ABSENT, "update_account_info", ABSENT)
ToolCallAttrPay == Item("Other", ABSENT, ABSENT, ABSENT, ABSENT, ABSENT, NONE, "pay_bill")
FunctionNameTransfer == Item("Other", ABSENT, ABSENT, ABSENT, "transfer_funds", ABSENT, ABSENT, ABSENT)
BareNamePay == Item("Other", ABSENT, ABSENT, ABSENT, ABSENT, "pay_bill", ABSENT, ABSENT)
EmptyName == Item("Other", ABSENT, ABSENT, ABSENT, ABSENT, "", ABSENT, ABSENT)
ToolCallShadowed == Item("ToolCallItem", "tool_call_item", ABSENT, "pay_bill", "transfer_funds", "update_account_info", ABSENT, ABSENT)

Items ==
    {MessageItem, HandoffOperational, HandoffNoTarget,
     DuckHandoffNamed, DuckHandoffAnonymous, DuckHandoffFunction,
     ToolCallPay, ToolCallUnnamed, OutputPay, FunctionCallUpdate,
     ToolCallAttrPay, FunctionNameTransfer, BareNamePay, EmptyName, ToolCallShadowed}

\* extract_routed_agent_name tells items apart only by their class and their
\* target_agent: one item stands for each kind of item without target_agent.
RoutedItems ==
    {MessageItem, HandoffOperational, HandoffNoTarget, DuckHandoffNamed,
     DuckHandoffAnonymous, DuckHandoffFunction, ToolCallPay, OutputPay, BareNamePay}

\* extract_tool_calls reads target_agent only through hasattr, and only on an
\* item that has a name: the named handoff items stand for the handoff items,
\* the message item for every item without any of the attributes read, and
\* ToolCallShadowed for the tool-call items whose raw item is named pay_bill.
ToolItems ==
    Items \ {HandoffOperational, HandoffNoTarget, DuckHandoffAnonymous, ToolCallPay}

SeqsUpTo(S, n) == UNION {[1..k -> S] : k \in 0..n}

VARIABLES
    \* -- the module state of utils.py and the arguments of one extractor call
    typesImported,  \* the SDK item classes were importable (utils.py:9-14)
    new_items,      \* run_result.new_items
    all_items,      \* run_result.all_items
    last_agent,     \* run_result.last_agent, held by its name
    missing,        \* the sequences of run_result that are absent or None
    fn,             \* the extractor the run result is passed to
    called,         \* the extractor has returned
    ret,            \* what it returned
    \* -- the datasets, the stores and one evaluation run
    ROUTING_DATASET,    \* data/dataset.py:63
    TOOL_CALL_DATASET,  \* data/dataset.py:66
    history_file,       \* results/history.json: whether it exists, and its text
    csv_files,          \* the CSV exports under results/, by path
    clock,              \* what datetime.now() reads
    pc,                 \* the phase of the driver
    eval_kind,          \* the driver that is running
    metadata,           \* run metadata (tool driver)
    stored_runs,        \* phase 1 output, one RunRecord per case
    reopened,           \* conversation ids reopened in phase 2, in order
    n_items,            \* number of items the last reopened session returned
    correct,            \* running count of correct cases
    results,            \* phase 2 output, one ScoredResult per RunRecord
    total,              \* len(stored_runs), set after the scoring loop
    acc,                \* accuracy, set after the scoring loop
    response,           \* the aggregate the driver returns
    error,              \* the call whose exception ended the run
    \* -- history variables of the verification
    at_start,           \* the stores as they were when the run started
    appended,           \* the entries passed to append_history so far
    completed           \* the drivers of the runs that reached DONE, in order

VARIABLES
    \* -- two requests whose PERSIST steps share the history store
    wpc,                \* where each request is in its PERSIST step
    wentry,             \* the history record each request appends
    whistory,           \* the local `history` list of each append_history call
    order,              \* history variable: the requests in the order they loaded
    overlapped          \* history variable: a request loaded between another's
                        \* load and the end of its rewrite

race_vars == <<wpc, wentry, whistory, order, overlapped>>

extract_vars == <<typesImported, new_items, all_items, last_agent, missing, fn, called, ret>>

data_vars == <<ROUTING_DATASET, TOOL_CALL_DATASET>>

store_vars == <<history_file, csv_files>>

run_vars == <<clock, pc, eval_kind, metadata, stored_runs, reopened, n_items, correct,
              results, total, acc, response, error>>

ghost_vars == <<at_start, appended, completed>>

vars == <<extract_vars, data_vars, store_vars, run_vars, ghost_vars, race_vars>>

\* `getattr(run_result, f, []) or []` (utils.py:36, 68, 112)
ItemsOf(rr, f) == IF f \in rr.missing THEN <<>> ELSE rr[f]

\* ------------------------------------------------ extract_routed_agent_name
\* A plausible slip: the scan keeps the last handoff item instead of the first.
RECURSIVE ScanHandoffLast(_, _, _)
ScanHandoffLast(items, i, types) ==
    IF i > Len(items) THEN NONE
    ELSE LET later == ScanHandoffLast(items, i + 1, types)
         IN  IF later # NONE THEN later
             ELSE IF HasAttr(items[i], "target_agent")
                  THEN NameOrUnknown(items[i].target_agent)
                  ELSE NONE

\* The loop of utils.py:36-50: the value returned from inside the loop, NONE
\* when the loop ends without returning.
RECURSIVE ScanHandoff(_, _, _)
ScanHandoff(items, i, types) ==
    IF i > Len(items) THEN NONE
    ELSE IF types /\ items[i].cls = "HandoffOutputItem"
         THEN IF GetAttr(items[i], "target_agent") # NONE
              THEN NameOrUnknown(items[i].target_agent)
              ELSE "Unknown"
    ELSE IF HasAttr(items[i], "target_agent")
         THEN NameOrUnknown(items[i].target_agent)
    ELSE ScanHandoff(items, i + 1, types)

\* A plausible slip: the fallback ignores last_agent.
extract_routed_agent_name_NoFallback(rr, types) ==
    LET found == ScanHandoff(ItemsOf(rr, "new_items"), 1, types)
    IN  IF found # NONE THEN found ELSE "Unknown"

extract_routed_agent_name(rr, types) ==
    LET found == ScanHandoff(ItemsOf(rr, "new_items"), 1, types)
    IN  IF found # NONE THEN found ELSE NameOrUnknown(rr.last_agent)

\* ------------------------------------------------------- extract_tool_calls
\* `if raw_item: tool_name = getattr(raw_item, "name", None)` (utils.py:74-76)
RawItemName(item, tool_name) ==
    IF GetAttr(item, "raw_item") # NONE
    THEN ObjName(item.raw_item)
    ELSE tool_name

\* Shape 1: an instance of ToolCallItem (utils.py:72-76, 116-120).
TypedToolCall(item, types) ==
    IF types /\ item.cls = "ToolCallItem" THEN RawItemName(item, NONE) ELSE NONE

\* Shape 2: the type discriminator "tool_call_item" (utils.py:79-84, 123-128).
TypeDiscriminator(item, tool_name) ==
    IF ~Truthy(tool_name) /\ GetAttr(item, "type") = "tool_call_item"
    THEN RawItemName(item, tool_name)
    ELSE tool_name

\* Shape 3: an instance of FunctionCallOutputItem (utils.py:87-90, 130-132).
FunctionCallOutput(item, tool_name, types) ==
    IF ~Truthy(tool_name) /\ types /\ item.cls = "FunctionCallOutputItem"
    THEN IF Truthy(GetAttr(item, "function_name"))
         THEN GetAttr(item, "function_name")
         ELSE GetAttr(item, "name")
    ELSE tool_name

\* Shape 4: a function_call or tool_call attribute (utils.py:93-96, 134-137).
CallAttribute(item, tool_name) ==
    IF ~Truthy(tool_name) /\ (HasAttr(item, "function_call") \/ HasAttr(item, "tool_call"))
    THEN LET func_call == IF GetAttr(item, "function_call") # NONE
                          THEN GetAttr(item, "function_call")
                          ELSE GetAttr(item, "tool_call")
         IN  IF func_call # NONE THEN ObjName(func_call) ELSE tool_name
    ELSE tool_name

\* Shape 5: a function_name attribute (utils.py:99-100, 139-140).
FunctionNameAttribute(item, tool_name) ==
    IF ~Truthy(tool_name) /\ HasAttr(item, "function_name")
    THEN item.function_name
    ELSE tool_name

\* Shape 6, primary pass only: a bare name attribute on an item that exposes
\* no target_agent (utils.py:103-105).
BareNameAttribute(item, tool_name) ==
    IF ~Truthy(tool_name) /\ HasAttr(item, "name") /\ ~HasAttr(item, "target_agent")
    THEN GetAttr(item, "name")
    ELSE tool_name

\* A plausible slip: the shapes are tried in the reverse order.
ResolvePrimaryReversed(item, types) ==
    LET tool_name ==
            TypeDiscriminator(item,
              FunctionCallOutput(item,
                CallAttribute(item,
                  FunctionNameAttribute(item, BareNameAttribute(item, NONE))), types))
    IN  IF Truthy(tool_name) THEN tool_name ELSE TypedToolCall(item, types)

\* The tool name the primary pass resolves for one item (utils.py:69-105).
ResolvePrimary(item, types) ==
    BareNameAttribute(item,
      FunctionNameAttribute(item,
        CallAttribute(item,
          FunctionCallOutput(item,
            TypeDiscriminator(item, TypedToolCall(item, types)), types))))

\* The tool name the secondary pass resolves for one item (utils.py:113-140).
ResolveSecondary(item, types) ==
    FunctionNameAttribute(item,
      CallAttribute(item,
        FunctionCallOutput(item,
          TypeDiscriminator(item, TypedToolCall(item, types)), types)))

\* `if tool_name and tool_name not in seen_tools:` append and add
\* (utils.py:107-109, 142-144).  st = [tool_calls, seen_tools].
\* A plausible slip: the seen_tools test is dropped.
RecordToolNoDedup(st, tool_name) ==
    IF Truthy(tool_name)
    THEN [tool_calls |-> Append(st.tool_calls, tool_name),
          seen_tools |-> st.seen_tools \cup {tool_name}]
    ELSE st

RecordTool(st, tool_name) ==
    IF Truthy(tool_name) /\ tool_name \notin st.seen_tools
    THEN [tool_calls |-> Append(st.tool_calls, tool_name),
          seen_tools |-> st.seen_tools \cup {tool_name}]
    ELSE st

RECURSIVE ScanPrimary(_, _, _, _)
ScanPrimary(items, i, st, types) ==
    IF i > Len(items) THEN st
    ELSE ScanPrimary(items, i + 1, RecordTool(st, ResolvePrimary(items[i], types)), types)

RECURSIVE ScanSecondary(_, _, _, _)
ScanSecondary(items, i, st, types) ==
    IF i > Len(items) THEN st
    ELSE ScanSecondary(items, i + 1, RecordTool(st, ResolveSecondary(items[i], types)), types)

extract_tool_calls(rr, types) ==
    LET start == [tool_calls |-> <<>>, seen_tools |-> {}]
        first == ScanPrimary(ItemsOf(rr, "new_items"), 1, start, types)
    IN  ScanSecondary(ItemsOf(rr, "all_items"), 1, first, types).tool_calls

\* ------------------------------------------------------------- datasets
\* data/dataset.py: one row of routing_dataset.csv / tool_call_dataset.csv.
RoutingCase(case_id, prompt, expected_agent) ==
    [case_id |-> case_id, prompt |-> prompt, expected_agent |-> expected_agent]

ToolCallCase(case_id, prompt, expected_tool) ==
    [case_id |-> case_id, prompt |-> prompt, expected_tool |-> expected_tool]

\* The table the dataset files are cut from: an id, a prompt, and whether the
\* expected label is spelled as the extraction layer spells it.  Rows 2 and 3
\* share their case_id.
CaseTable ==
    <<<<"r1", "Transfer $50", TRUE>>, <<"r2", "Pay my bill", FALSE>>,
      <<"r2", "Pay the gas bill", TRUE>>>>

\* The files of at most n rows: runs of consecutive rows of the table.  Both
\* dataset files are cut from the same rows; no operation reads both datasets.
CaseFiles(n) ==
    {SubSeq(CaseTable, a, b) : a \in 1..Len(CaseTable), b \in 0..Len(CaseTable)} \cap
        SeqsUpTo({CaseTable[i] : i \in DOMAIN CaseTable}, n)

RoutingLabel(exact) == IF exact THEN "Operational" ELSE "operational"

ToolLabel(exact) == IF exact THEN "pay_bill" ELSE "Pay_Bill"

\* _load_routing_dataset / _load_tool_call_dataset: one row, one case, in order.
LoadRouting(rows) ==
    [i \in DOMAIN rows |-> RoutingCase(rows[i][1], rows[i][2], RoutingLabel(rows[i][3]))]

LoadToolCall(rows) ==
    [i \in DOMAIN rows |-> ToolCallCase(rows[i][1], rows[i][2], ToolLabel(rows[i][3]))]

\* ------------------------------------------------- external collaborators
\* What Runner.run can return for the orchestrator: a handoff to the
\* Operational specialist, or the orchestrator answering itself.
RoutingRunResults ==
    {[new_items |-> <<MessageItem, HandoffOperational, MessageItem>>, all_items |-> <<>>,
      last_agent |-> "Operational", missing |-> {"all_items"}, final_output |-> "Transferred."],
     [new_items |-> <<MessageItem>>, all_items |-> <<>>,
      last_agent |-> "Orchestrator", missing |-> {"all_items"}, final_output |-> "How can I help?"]}

\* What Runner.run can return for the operational agent: a pay_bill call
\* followed by a transfer_funds call, or a plain answer without any tool call.
ToolRunResults ==
    {[new_items |-> <<ToolCallPay, ToolCallUnnamed, MessageItem>>, all_items |-> <<>>,
      last_agent |-> "Operational", missing |-> {"all_items"},
      final_output |-> "Bill paid, funds transferred."],
     [new_items |-> <<MessageItem>>, all_items |-> <<>>,
      last_agent |-> "Operational", missing |-> {"all_items"}, final_output |-> "Which bill?"]}

\* The durable identifier the session store gives the session of case i of
\* the run started at time t.
ConversationId(t, i) == "conv_" \o ToString(t) \o "_" \o ToString(i)

\* A plausible slip: only the cached identifier field is read.
get_conversation_id_CachedOnly(session) == session._session_id

\* utils.py:17-27: the cached identifier when populated, else the one
\* _get_session_id() materializes.
get_conversation_id(session) ==
    IF session._session_id # NONE /\ session._session_id # ""
    THEN session._session_id
    ELSE session.materialized

\* The outcomes of `git rev-parse HEAD` (history.py:36-42).
GitOutcomes == {"ok", "CalledProcessError", "FileNotFoundError", "PermissionError"}

\* ------------------------------------------------------------- history.py
\* json.dump of one value: None -> null, str -> string, int and float -> number.
JsonOfStr(v) == IF v = NONE THEN [t |-> "null"] ELSE [t |-> "string", s |-> v]

JsonOfInt(n) == [t |-> "int", n |-> n]

JsonOfFloat(f) == [t |-> "real", num |-> f.num, den |-> f.den]

JsonOfEntry(e) ==
    [run_id |-> JsonOfStr(e.run_id), timestamp |-> JsonOfStr(e.timestamp),
     model |-> JsonOfStr(e.model), dataset |-> JsonOfStr(e.dataset),
     eval_type |-> JsonOfStr(e.eval_type), git_commit |-> JsonOfStr(e.git_commit),
     accuracy |-> JsonOfFloat(e.accuracy), correct |-> JsonOfInt(e.correct),
     total |-> JsonOfInt(e.total), csv_path |-> JsonOfStr(e.csv_path)]

\* json.dump(history, file, indent=2) (history.py:31)
json_dump(history) == [i \in DOMAIN history |-> JsonOfEntry(history[i])]

ValueOfJson(j) ==
    CASE j.t = "null" -> NONE
      [] j.t = "string" -> j.s
      [] j.t = "int" -> j.n
      [] j.t = "real" -> [num |-> j.num, den |-> j.den]

\* json.load(file) (history.py:22)
json_load(text) ==
    [i \in DOMAIN text |-> [k \in DOMAIN text[i] |-> ValueOfJson(text[i][k])]]

\* The state of results/history.json before it is first written.
NoFile == [exists |-> FALSE, text |-> <<>>]

\* history.py:17-22
load_history(file) == IF ~file.exists THEN <<>> ELSE json_load(file.text)

\* A plausible slip: the list starts empty instead of from the stored history.
LocalHistoryFresh(file, entry) == <<entry>>

\* `history = load_history(); history.append(entry)` (history.py:26-27)
LocalHistory(file, entry) == Append(load_history(file), entry)

\* `with history_path.open("w") as file: json.dump(history, file)` once the
\* file is closed (history.py:30-31)
Rewritten(history) == [exists |-> TRUE, text |-> json_dump(history)]

\* A plausible slip: the entry is written without the existing history.
append_history_Overwrite(file, entry) ==
    [exists |-> TRUE, text |-> json_dump(<<entry>>)]

\* history.py:25-31, run without interruption.
append_history(file, entry) == Rewritten(LocalHistory(file, entry))

\* history.py:34-45: the hash, or None when git fails or is not installed.
\* Any other exception is not caught here.
get_git_commit_hash(outcome) == IF outcome = "ok" THEN "4f2a9c1" ELSE NONE

\* datetime.now().isoformat() (history.py:49)
IsoFormat(t) == "2026-01-01T00:00:0" \o ToString(t)

\* datetime.now().strftime("%Y%m%d_%H%M%S") (handoff_eval.py:46, tool_eval.py:52)
StrfTime(t) == "20260101_00000" \o ToString(t)

\* history.py:48-57
build_run_metadata(model, dataset, eval_type, t, git) ==
    [run_id |-> eval_type \o "_" \o IsoFormat(t), timestamp |-> IsoFormat(t),
     model |-> model, dataset |-> dataset, eval_type |-> eval_type,
     git_commit |-> get_git_commit_hash(git)]

NoMetadata == [run_id |-> NONE]

\* ------------------------------------------------------------ scoring
RECURSIVE GCD(_, _)
GCD(a, b) == IF b = 0 THEN a ELSE GCD(b, a % b)

\* The float a / b, held as the fraction in lowest terms.
Divide(a, b) == [num |-> a \div GCD(a, b), den |-> b \div GCD(a, b)]

\* 0.0
ZeroFloat == [num |-> 0, den |-> 1]

\* `acc = correct / total if total else 0.0` (handoff_eval.py:138, tool_eval.py:171)
Accuracy(n_correct, n_total) == IF n_total # 0 THEN Divide(n_correct, n_total) ELSE ZeroFloat

\* A plausible slip: the last case with the id is taken instead of the first.
RECURSIVE PromptFromLast(_, _, _)
PromptFromLast(dataset, i, case_id) ==
    IF i > Len(dataset) THEN ""
    ELSE LET later == PromptFromLast(dataset, i + 1, case_id)
         IN  IF later # "" THEN later
             ELSE IF dataset[i].case_id = case_id THEN dataset[i].prompt
             ELSE ""

\* `next((c.prompt for c in DATASET if c.case_id == row["case_id"]), "")`
\* (handoff_eval.py:124, tool_eval.py:156)
RECURSIVE PromptFrom(_, _, _)
PromptFrom(dataset, i, case_id) ==
    IF i > Len(dataset) THEN ""
    ELSE IF dataset[i].case_id = case_id THEN dataset[i].prompt
    ELSE PromptFrom(dataset, i + 1, case_id)

\* A plausible slip: a run without tool calls is recorded with the empty string.
ActualToolOrEmpty(called_tools) == IF called_tools # <<>> THEN called_tools[1] ELSE ""

\* `actual_tool = called_tools[0] if called_tools else "None"` (tool_eval.py:118)
ActualTool(called_tools) == IF called_tools # <<>> THEN called_tools[1] ELSE "None"

\* A plausible slip: the labels are compared without regard to case.
Lower(s) ==
    IF s = "Operational" THEN "operational" ELSE IF s = "Pay_Bill" THEN "pay_bill" ELSE s

IsCorrectIgnoringCase(row) == Lower(row.actual) = Lower(row.expected)

\* `is_correct = (row["actual"] == row["expected"])` (handoff_eval.py:119, tool_eval.py:151)
IsCorrect(row) == row.actual = row.expected

\* A plausible slip: every scored case is counted.
CountCorrectAlways(n_correct, is_correct) == n_correct + 1

\* `correct += int(is_correct)` (handoff_eval.py:120, tool_eval.py:152)
CountCorrect(n_correct, is_correct) == n_correct + (IF is_correct THEN 1 ELSE 0)

\* The dict appended to results (handoff_eval.py:123-128, tool_eval.py:155-160)
ScoredResult(dataset, row) ==
    [message |-> PromptFrom(dataset, 1, row.case_id), target |-> row.expected,
     output |-> row.actual, correct |-> IsCorrect(row)]

\* The dict passed to append_history (tool_eval.py:175-181).
HistoryRecord(md, accuracy, n_correct, n_total, csv_path) ==
    [run_id |-> md.run_id, timestamp |-> md.timestamp, model |-> md.model,
     dataset |-> md.dataset, eval_type |-> md.eval_type, git_commit |-> md.git_commit,
     accuracy |-> accuracy, correct |-> n_correct, total |-> n_total,
     csv_path |-> csv_path]

\* ------------------------------------------------------------ CSV export
\* handoff_eval.py:26-63: the path and the rows written.
HandoffCsvPath(t) == "results/handoff_evals_" \o StrfTime(t) \o ".csv"

HandoffCsv(rs) ==
    [fieldnames |-> <<"message", "target", "output">>,
     rows |-> [i \in DOMAIN rs |->
                 [message |-> rs[i].message, target |-> rs[i].target, output |-> rs[i].output]]]

\* tool_eval.py:27-83: the path and the rows written.
ToolCsvPath(t) == "results/tool_call_evals_" \o StrfTime(t) \o ".csv"

ToolCsv(rs, md) ==
    [fieldnames |-> <<"run_id", "timestamp", "model", "dataset", "eval_type",
                      "message", "target", "output">>,
     rows |-> [i \in DOMAIN rs |->
                 [run_id |-> md.run_id, timestamp |-> md.timestamp, model |-> md.model,
                  dataset |-> md.dataset, eval_type |-> md.eval_type,
                  message |-> rs[i].message, target |-> rs[i].target, output |-> rs[i].output]]]

\* open(filepath, 'w'): the file is created, or replaced when it exists.
WriteFile(files, path, content) ==
    [p \in DOMAIN files \cup {path} |-> IF p = path THEN content ELSE files[p]]

\* ------------------------------------------------------- evaluation drivers
NoResponse == [csv_path |-> NONE]

Idle == pc \in {"INIT", "DONE", "ERROR"}

\* The dataset the running driver iterates over.
Dataset == IF eval_kind = "handoff" THEN ROUTING_DATASET ELSE TOOL_CALL_DATASET

\* A call of a driver: its locals are fresh.
EnterDriver(kind) ==
    /\ Idle
    /\ clock < MaxRuns
    /\ clock' = clock + 1
    /\ eval_kind' = kind
    /\ stored_runs' = <<>>
    /\ reopened' = <<>>
    /\ n_items' = 0
    /\ correct' = 0
    /\ results' = <<>>
    /\ total' = 0
    /\ acc' = ZeroFloat
    /\ response' = NoResponse
    /\ at_start' = [history_file |-> history_file, csv_files |-> csv_files]
    /\ UNCHANGED <<race_vars, extract_vars, data_vars, store_vars, appended, completed>>

\* An exception leaves the driver: nothing in it catches one.
Propagate(call) ==
    /\ pc' = "ERROR"
    /\ error' = call

\* run_handoff_eval, lines 73-79: build the agents, start phase 1.
handoff_Start ==
    /\ EnterDriver("handoff")
    /\ metadata' = NoMetadata
    /\ pc' = "PHASE1_GENERATE"
    /\ error' = NONE

\* run_handoff_eval, lines 80-100: one case of phase 1.
handoff_Phase1Case ==
    /\ pc = "PHASE1_GENERATE" /\ eval_kind = "handoff"
    /\ Len(stored_runs) < Len(ROUTING_DATASET)
    /\ \E result \in RoutingRunResults, cached \in BOOLEAN :
         LET i == Len(stored_runs) + 1
             case == ROUTING_DATASET[i]
             session == [_session_id |-> IF cached THEN ConversationId(clock, i) ELSE NONE,
                         materialized |-> ConversationId(clock, i)]
             routed_to == extract_routed_agent_name(result, typesImported)
             conv_id == get_conversation_id(session)
         IN  stored_runs' = Append(stored_runs,
                 [case_id |-> case.case_id, expected |-> case.expected_agent,
                  actual |-> routed_to, conversation_id |-> conv_id,
                  final_output |-> result.final_output])
    /\ UNCHANGED <<race_vars, extract_vars, data_vars, store_vars, clock, pc, eval_kind, metadata,
                   reopened, n_items, correct, results, total, acc, response, error,
                   ghost_vars>>

\* run_handoff_eval, lines 83 and 90: Runner.run or _get_session_id raises.
handoff_Phase1Raise ==
    /\ pc = "PHASE1_GENERATE" /\ eval_kind = "handoff"
    /\ Len(stored_runs) < Len(ROUTING_DATASET)
    /\ \E call \in {"Runner.run", "_get_session_id"} : Propagate(call)
    /\ UNCHANGED <<race_vars, extract_vars, data_vars, store_vars, clock, eval_kind, metadata,
                   stored_runs, reopened, n_items, correct, results, total, acc, response,
                   ghost_vars>>

\* A plausible slip: the phase 1 loop stops one case short.
handoff_Phase1DoneEarly ==
    /\ pc = "PHASE1_GENERATE" /\ eval_kind = "handoff"
    /\ Len(stored_runs) + 1 >= Len(ROUTING_DATASET)
    /\ pc' = "PHASE2_RELOAD_SCORE"
    /\ correct' = 0
    /\ results' = <<>>
    /\ UNCHANGED <<race_vars, extract_vars, data_vars, store_vars, clock, eval_kind, metadata,
                   stored_runs, reopened, n_items, total, acc, response, error, ghost_vars>>

\* run_handoff_eval, lines 105-109: the phase 1 loop is exhausted.
handoff_Phase1Done ==
    /\ pc = "PHASE1_GENERATE" /\ eval_kind = "handoff"
    /\ Len(stored_runs) = Len(ROUTING_DATASET)
    /\ pc' = "PHASE2_RELOAD_SCORE"
    /\ correct' = 0
    /\ results' = <<>>
    /\ UNCHANGED <<race_vars, extract_vars, data_vars, store_vars, clock, eval_kind, metadata,
                   stored_runs, reopened, n_items, total, acc, response, error, ghost_vars>>

\* run_handoff_eval, lines 111-128: one row of phase 2.
handoff_Phase2Row ==
    /\ pc = "PHASE2_RELOAD_SCORE" /\ eval_kind = "handoff"
    /\ Len(results) < Len(stored_runs)
    /\ LET row == stored_runs[Len(results) + 1]
       IN  /\ reopened' = Append(reopened, row.conversation_id)
           /\ \E n \in {0, 1} : n_items' = n
           /\ correct' = CountCorrect(correct, IsCorrect(row))
           /\ results' = Append(results, ScoredResult(ROUTING_DATASET, row))
    /\ UNCHANGED <<race_vars, extract_vars, data_vars, store_vars, clock, pc, eval_kind, metadata,
                   stored_runs, total, acc, response, error, ghost_vars>>

\* run_handoff_eval, line 116: get_items raises.
handoff_Phase2Raise ==
    /\ pc = "PHASE2_RELOAD_SCORE" /\ eval_kind = "handoff"
    /\ Len(results) < Len(stored_runs)
    /\ Propagate("get_items")
    /\ UNCHANGED <<race_vars, extract_vars, data_vars, store_vars, clock, eval_kind, metadata,
                   stored_runs, reopened, n_items, correct, results, total, acc, response,
                   ghost_vars>>

\* run_handoff_eval, lines 137-138: the phase 2 loop is exhausted.
handoff_Phase2Done ==
    /\ pc = "PHASE2_RELOAD_SCORE" /\ eval_kind = "handoff"
    /\ Len(results) = Len(stored_runs)
    /\ total' = Len(stored_runs)
    /\ acc' = Accuracy(correct, Len(stored_runs))
    /\ pc' = "PERSIST"
    /\ UNCHANGED <<race_vars, extract_vars, data_vars, store_vars, clock, eval_kind, metadata,
                   stored_runs, reopened, n_items, correct, results, response, error,
                   ghost_vars>>

\* run_handoff_eval, lines 141-156: write the CSV export and return.
handoff_Persist ==
    /\ pc = "PERSIST" /\ eval_kind = "handoff"
    /\ LET csv_path == HandoffCsvPath(clock)
       IN  /\ csv_files' = WriteFile(csv_files, csv_path, HandoffCsv(results))
           /\ response' = [accuracy |-> acc, correct |-> correct, total |-> total,
                           results |-> results, csv_path |-> csv_path]
    /\ pc' = "DONE"
    /\ completed' = Append(completed, "handoff")
    /\ UNCHANGED <<race_vars, extract_vars, data_vars, history_file, clock, eval_kind, metadata,
                   stored_runs, reopened, n_items, correct, results, total, acc, error,
                   at_start, appended>>

\* run_tool_eval, lines 94-105: build the agents and the run metadata, start
\* phase 1; an exception of the git lookup that get_git_commit_hash does not
\* catch leaves the driver.
tool_Start ==
    /\ EnterDriver("tool")
    /\ \E git \in GitOutcomes :
         IF git \in {"ok", "CalledProcessError", "FileNotFoundError"}
         THEN /\ metadata' = build_run_metadata("gpt-4.1-mini", "TOOL_CALL_DATASET", "tool",
                                                clock', git)
              /\ pc' = "PHASE1_GENERATE"
              /\ error' = NONE
         ELSE /\ metadata' = NoMetadata
              /\ Propagate("git")

\* run_tool_eval, lines 106-132: one case of phase 1.
tool_Phase1Case ==
    /\ pc = "PHASE1_GENERATE" /\ eval_kind = "tool"
    /\ Len(stored_runs) < Len(TOOL_CALL_DATASET)
    /\ \E result \in ToolRunResults, cached \in BOOLEAN :
         LET i == Len(stored_runs) + 1
             case == TOOL_CALL_DATASET[i]
             session == [_session_id |-> IF cached THEN ConversationId(clock, i) ELSE NONE,
                         materialized |-> ConversationId(clock, i)]
             called_tools == extract_tool_calls(result, typesImported)
             actual_tool == ActualTool(called_tools)
             conv_id == get_conversation_id(session)
         IN  stored_runs' = Append(stored_runs,
                 [case_id |-> case.case_id, expected |-> case.expected_tool,
                  actual |-> actual_tool, all_tools_called |-> called_tools,
                  conversation_id |-> conv_id, final_output |-> result.final_output])
    /\ UNCHANGED <<race_vars, extract_vars, data_vars, store_vars, clock, pc, eval_kind, metadata,
                   reopened, n_items, correct, results, total, acc, response, error,
                   ghost_vars>>

\* run_tool_eval, lines 109 and 121: Runner.run or _get_session_id raises.
tool_Phase1Raise ==
    /\ pc = "PHASE1_GENERATE" /\ eval_kind = "tool"
    /\ Len(stored_runs) < Len(TOOL_CALL_DATASET)
    /\ \E call \in {"Runner.run", "_get_session_id"} : Propagate(call)
    /\ UNCHANGED <<race_vars, extract_vars, data_vars, store_vars, clock, eval_kind, metadata,
                   stored_runs, reopened, n_items, correct, results, total, acc, response,
                   ghost_vars>>

\* run_tool_eval, lines 137-141: the phase 1 loop is exhausted.
tool_Phase1Done ==
    /\ pc = "PHASE1_GENERATE" /\ eval_kind = "tool"
    /\ Len(stored_runs) = Len(TOOL_CALL_DATASET)
    /\ pc' = "PHASE2_RELOAD_SCORE"
    /\ correct' = 0
    /\ results' = <<>>
    /\ UNCHANGED <<race_vars, extract_vars, data_vars, store_vars, clock, eval_kind, metadata,
                   stored_runs, reopened, n_items, total, acc, response, error, ghost_vars>>

\* run_tool_eval, lines 143-160: one row of phase 2.
tool_Phase2Row ==
    /\ pc = "PHASE2_RELOAD_SCORE" /\ eval_kind = "tool"
    /\ Len(results) < Len(stored_runs)
    /\ LET row == stored_runs[Len(results) + 1]
       IN  /\ reopened' = Append(reopened, row.conversation_id)
           /\ \E n \in {0, 1} : n_items' = n
           /\ correct' = CountCorrect(correct, IsCorrect(row))
           /\ results' = Append(results, ScoredResult(TOOL_CALL_DATASET, row))
    /\ UNCHANGED <<race_vars, extract_vars, data_vars, store_vars, clock, pc, eval_kind, metadata,
                   stored_runs, total, acc, response, error, ghost_vars>>

\* A plausible slip: a handler around the scoring loop exports the partial
\* results before the exception leaves the driver.
tool_Phase2RaiseExported ==
    /\ pc = "PHASE2_RELOAD_SCORE" /\ eval_kind = "tool"
    /\ Len(results) < Len(stored_runs)
    /\ Propagate("get_items")
    /\ csv_files' = WriteFile(csv_files, ToolCsvPath(clock), ToolCsv(results, metadata))
    /\ UNCHANGED <<race_vars, extract_vars, data_vars, history_file, clock, eval_kind, metadata,
                   stored_runs, reopened, n_items, correct, results, total, acc, response,
                   ghost_vars>>

\* run_tool_eval, line 148: get_items raises.
tool_Phase2Raise ==
    /\ pc = "PHASE2_RELOAD_SCORE" /\ eval_kind = "tool"
    /\ Len(results) < Len(stored_runs)
    /\ Propagate("get_items")
    /\ UNCHANGED <<race_vars, extract_vars, data_vars, store_vars, clock, eval_kind, metadata,
                   stored_runs, reopened, n_items, correct, results, total, acc, response,
                   ghost_vars>>

\* run_tool_eval, lines 170-171: the phase 2 loop is exhausted.
tool_Phase2Done ==
    /\ pc = "PHASE2_RELOAD_SCORE" /\ eval_kind = "tool"
    /\ Len(results) = Len(stored_runs)
    /\ total' = Len(stored_runs)
    /\ acc' = Accuracy(correct, Len(stored_runs))
    /\ pc' = "PERSIST"
    /\ UNCHANGED <<race_vars, extract_vars, data_vars, store_vars, clock, eval_kind, metadata,
                   stored_runs, reopened, n_items, correct, results, response, error,
                   ghost_vars>>

\* run_tool_eval, lines 174-198: write the CSV export, append the history
\* record and return.
tool_Persist ==
    /\ pc = "PERSIST" /\ eval_kind = "tool"
    /\ LET csv_path == ToolCsvPath(clock)
           history_record == HistoryRecord(metadata, acc, correct, total, csv_path)
       IN  /\ csv_files' = WriteFile(csv_files, csv_path, ToolCsv(results, metadata))
           /\ history_file' = append_history(history_file, history_record)
           /\ appended' = Append(appended, history_record)
           /\ response' = [accuracy |-> acc, correct |-> correct, total |-> total,
                           results |-> results, csv_path |-> csv_path,
                           metadata |-> metadata]
    /\ pc' = "DONE"
    /\ completed' = Append(completed, "tool")
    /\ UNCHANGED <<race_vars, extract_vars, data_vars, clock, eval_kind, metadata, stored_runs,
                   reopened, n_items, correct, results, total, acc, error, at_start>>

\* The state of the driver and the stores while no run has been started.
DriverInit ==
    /\ history_file = NoFile
    /\ csv_files = <<>>
    /\ clock = 0
    /\ pc = "INIT"
    /\ eval_kind = NONE
    /\ metadata = NoMetadata
    /\ stored_runs = <<>>
    /\ reopened = <<>>
    /\ n_items = 0
    /\ correct = 0
    /\ results = <<>>
    /\ total = 0
    /\ acc = ZeroFloat
    /\ response = NoResponse
    /\ error = NONE
    /\ at_start = [history_file |-> NoFile, csv_files |-> <<>>]
    /\ appended = <<>>
    /\ completed = <<>>

\* The requests whose PERSIST steps may interleave.
Writers == {1, 2}

\* No request is in a PERSIST step of its own thread.
RaceIdle ==
    /\ wpc = [w \in Writers |-> "IDLE"]
    /\ wentry = [w \in Writers |-> NoMetadata]
    /\ whistory = [w \in Writers |-> <<>>]
    /\ order = <<>>
    /\ overlapped = FALSE

\* No extractor call is in progress.
ExtractIdle ==
    /\ new_items = <<>>
    /\ all_items = <<>>
    /\ last_agent = NONE
    /\ missing = {}
    /\ fn = NONE
    /\ called = FALSE
    /\ ret = <<>>

Init ==
    /\ typesImported \in BOOLEAN
    /\ ExtractIdle
    /\ \E rows \in CaseFiles(MaxCases) :
         /\ ROUTING_DATASET = LoadRouting(rows)
         /\ TOOL_CALL_DATASET = LoadToolCall(rows)
    /\ DriverInit
    /\ RaceIdle

Next ==
    \/ handoff_Start
    \/ handoff_Phase1Case
    \/ handoff_Phase1Raise
    \/ handoff_Phase1Done
    \/ handoff_Phase2Row
    \/ handoff_Phase2Raise
    \/ handoff_Phase2Done
    \/ handoff_Persist
    \/ tool_Start
    \/ tool_Phase1Case
    \/ tool_Phase1Raise
    \/ tool_Phase1Done
    \/ tool_Phase2Row
    \/ tool_Phase2Raise
    \/ tool_Phase2Done
    \/ tool_Persist

Spec == Init /\ [][Next]_vars

\* ------------------------------------------- specification of the extractors
RunResult ==
    [new_items |-> new_items, all_items |-> all_items, last_agent |-> last_agent,
     missing |-> missing]

\* The arguments of one call: extract_routed_agent_name reads new_items and
\* last_agent, extract_tool_calls reads new_items and all_items.
InitExtract ==
    /\ typesImported \in BOOLEAN
    /\ fn \in {"extract_routed_agent_name", "extract_tool_calls"}
    /\ \/ /\ fn = "extract_routed_agent_name"
          /\ new_items \in SeqsUpTo(RoutedItems, MaxItems)
          /\ all_items = <<>>
       \/ /\ fn = "extract_tool_calls"
          /\ \E n \in SeqsUpTo(ToolItems, MaxItems) :
               \E a \in SeqsUpTo(ToolItems, MaxItems - Len(n)) :
                  new_items = n /\ all_items = a
    /\ last_agent \in {NONE, "Orchestrator", "Operational", "Informational"}
    /\ fn = "extract_tool_calls" => last_agent = "Orchestrator"
    /\ missing \in SUBSET {"new_items", "all_items"}
    /\ "new_items" \in missing => new_items = <<>>
    /\ "all_items" \in missing => all_items = <<>> /\ fn = "extract_tool_calls"
    /\ called = FALSE
    /\ ret = <<>>
    /\ ROUTING_DATASET = <<>>
    /\ TOOL_CALL_DATASET = <<>>
    /\ DriverInit
    /\ RaceIdle

CallExtractRouted ==
    /\ fn = "extract_routed_agent_name" /\ ~called
    /\ called' = TRUE
    /\ ret' = <<extract_routed_agent_name(RunResult, typesImported)>>
    /\ UNCHANGED <<race_vars, typesImported, new_items, all_items, last_agent, missing,
                   fn, data_vars, store_vars, run_vars, ghost_vars>>

CallExtractTools ==
    /\ fn = "extract_tool_calls" /\ ~called
    /\ called' = TRUE
    /\ ret' = extract_tool_calls(RunResult, typesImported)
    /\ UNCHANGED <<race_vars, typesImported, new_items, all_items, last_agent, missing,
                   fn, data_vars, store_vars, run_vars, ghost_vars>>

NextExtract == CallExtractRouted \/ CallExtractTools

SpecExtract == InitExtract /\ [][NextExtract]_vars

\* ------------------------------------------------------- extraction claims
\* An item that represents a handoff event: an instance of the handoff item
\* type, or any item exposing a target_agent attribute.
Returned(f) == fn = f /\ called

IsHandoffShaped(item) == item.cls = "HandoffOutputItem" \/ HasAttr(item, "target_agent")

HandoffPositions == {i \in DOMAIN new_items : IsHandoffShaped(new_items[i])}

FirstHandoff == CHOOSE i \in HandoffPositions : \A j \in HandoffPositions : i <= j

\* The name of the item's declared target, "Unknown" when it has no resolvable one.
DeclaredTarget(item) ==
    IF item.target_agent \in {ABSENT, NONE, NONAME} THEN "Unknown" ELSE item.target_agent

\* C1: when new_items holds at least one handoff-shaped item,
\* extract_routed_agent_name returns the target agent name of the first such item
\* in sequence order, or "Unknown" when that item has no resolvable target; the
\* items around it and last_agent play no part.
C1_FirstHandoffTarget ==
    (Returned("extract_routed_agent_name") /\ HandoffPositions # {})
        => ret = <<DeclaredTarget(new_items[FirstHandoff])>>

\* A call on [non-handoff, handoff to T, handoff to another target] with a
\* last_agent other than T has returned T.
C1_Witness ==
    /\ Returned("extract_routed_agent_name")
    /\ Len(new_items) = 3
    /\ HandoffPositions = {2, 3}
    /\ DeclaredTarget(new_items[2]) \notin {"Unknown", DeclaredTarget(new_items[3]), last_agent}
    /\ last_agent # NONE
    /\ ret = <<DeclaredTarget(new_items[2])>>

\* C2: when new_items holds no handoff-shaped item (the empty and the missing
\* sequence included), extract_routed_agent_name returns last_agent.name
\* ("Unknown" when the run result carries no last agent).
C2_FallbackLastAgent ==
    (Returned("extract_routed_agent_name") /\ HandoffPositions = {})
        => ret = <<IF last_agent = NONE THEN "Unknown" ELSE last_agent>>

\* A call on two non-handoff items with last agent Orchestrator has returned it.
C2_Witness ==
    /\ Returned("extract_routed_agent_name")
    /\ Len(new_items) = 2
    /\ HandoffPositions = {}
    /\ last_agent = "Orchestrator"
    /\ ret = <<"Orchestrator">>

\* The name resolved at position k when the primary sequence is scanned fully
\* before the secondary one.
ResolvedAt(k) ==
    IF k <= Len(new_items)
    THEN ResolvePrimary(new_items[k], typesImported)
    ELSE ResolveSecondary(all_items[k - Len(new_items)], typesImported)

ScanPositions == 1..(Len(new_items) + Len(all_items))

FirstOccurrence(name) ==
    CHOOSE k \in ScanPositions :
        ResolvedAt(k) = name /\ \A j \in ScanPositions : ResolvedAt(j) = name => k <= j

\* C3: the list returned by extract_tool_calls holds no name twice, holds every
\* tool name resolved from any item of either sequence, and orders the names by
\* first occurrence, the primary sequence scanned fully before the secondary.
C3_OrderedDistinct ==
    Returned("extract_tool_calls") =>
        /\ \A i, j \in DOMAIN ret : i # j => ret[i] # ret[j]
        /\ {ret[i] : i \in DOMAIN ret} =
               {ResolvedAt(k) : k \in {j \in ScanPositions : Truthy(ResolvedAt(j))}}
        /\ \A i, j \in DOMAIN ret :
               i < j => FirstOccurrence(ret[i]) < FirstOccurrence(ret[j])

\* Tool-call items named [A, B, A] have yielded [A, B].
C3_Witness ==
    /\ Returned("extract_tool_calls")
    /\ Len(new_items) = 3 /\ all_items = <<>>
    /\ Truthy(ResolvedAt(1)) /\ Truthy(ResolvedAt(2))
    /\ ResolvedAt(3) = ResolvedAt(1) /\ ResolvedAt(2) # ResolvedAt(1)
    /\ ret = <<ResolvedAt(1), ResolvedAt(2)>>

\* An item exposing both a name attribute and a target-agent relation.
IsNamedHandoff(item) == HasAttr(item, "name") /\ HasAttr(item, "target_agent")

NotNamedHandoff(item) == ~IsNamedHandoff(item)

WithoutNamedHandoffs(rr) ==
    [rr EXCEPT !.new_items = SelectSeq(rr.new_items, NotNamedHandoff),
               !.all_items = SelectSeq(rr.all_items, NotNamedHandoff)]

\* C4: an item exposing both a name attribute and a target_agent never
\* contributes a name to the result of extract_tool_calls, whichever sequence it
\* is in and whatever other attributes it exposes: the result is the one the
\* run would give without those items.
C4_NamedHandoffNeverToolCall ==
    Returned("extract_tool_calls") =>
        ret = extract_tool_calls(WithoutNamedHandoffs(RunResult), typesImported)

\* ----------------------------------------------------------- driver claims
\* The expected label of a dataset case of the running driver.
ExpectedLabel(case) ==
    IF eval_kind = "handoff" THEN case.expected_agent ELSE case.expected_tool

\* C5: every evaluation run that reaches DONE, of either driver, has written
\* one CSV export and appended exactly one HistoryRecord: after k completed
\* runs the history store holds exactly k records more than before (it starts
\* empty).
C5_OneHistoryRecordPerRun ==
    /\ Len(load_history(history_file)) = Len(completed)
    /\ pc = "DONE" => response.csv_path \in DOMAIN csv_files

\* C6: with a single sequential writer the history store is append-only and
\* round-trips: load_history returns the empty list before any append, and
\* after N appends exactly the N appended records, in append order.
C6_HistoryRoundTrip == load_history(history_file) = appended

\* Two different records have been appended, one of them without a commit hash.
C6_Witness ==
    /\ Len(appended) = 2
    /\ appended[1] # appended[2]
    /\ appended[1].git_commit = NONE
    /\ load_history(history_file) = appended

\* C7: when an agent-execution or session-store call raises, the run ends in
\* error: no further case is processed, no CSV export is written, the history
\* store is as it was when the run started and no aggregate is returned.
C7_ErrorPersistsNothing ==
    /\ [](pc = "ERROR" =>
            /\ history_file = at_start.history_file
            /\ csv_files = at_start.csv_files
            /\ response = NoResponse)
    /\ [][pc = "ERROR" =>
            /\ Len(stored_runs') <= Len(stored_runs)
            /\ Len(results') <= Len(results)
            /\ store_vars' = store_vars]_vars

\* get_items has raised after a case was scored, in a run started on a store
\* that already held a record.
C7_Witness ==
    /\ pc = "ERROR" /\ error = "get_items"
    /\ Len(results) = 1 /\ Len(stored_runs) = 2
    /\ at_start.history_file.exists
    /\ history_file = at_start.history_file

PhaseSteps ==
    {<<"INIT", "PHASE1_GENERATE">>, <<"PHASE1_GENERATE", "PHASE2_RELOAD_SCORE">>,
     <<"PHASE2_RELOAD_SCORE", "PERSIST">>, <<"PERSIST", "DONE">>,
     <<"DONE", "PHASE1_GENERATE">>, <<"ERROR", "PHASE1_GENERATE">>,
     <<"INIT", "ERROR">>, <<"DONE", "ERROR">>,
     <<"PHASE1_GENERATE", "ERROR">>, <<"PHASE2_RELOAD_SCORE", "ERROR">>}

\* C8: the phases of a run occur in the order PHASE1_GENERATE,
\* PHASE2_RELOAD_SCORE, PERSIST, DONE with none skipped: no session is
\* reopened or scored before every dataset case has its RunRecord, nothing is
\* written to the CSV export or the history store before every RunRecord is
\* scored, and phase 2 processes only the cases phase 1 recorded.
C8_PhaseOrder ==
    /\ [][pc' # pc => <<pc, pc'>> \in PhaseSteps]_vars
    /\ [](/\ (reopened # <<>> \/ results # <<>>) => Len(stored_runs) = Len(Dataset)
          /\ store_vars # <<at_start.history_file, at_start.csv_files>> =>
                 /\ pc = "DONE"
                 /\ Len(results) = Len(stored_runs)
                 /\ Len(stored_runs) = Len(Dataset)
          /\ Len(reopened) = Len(results)
          /\ Len(results) <= Len(stored_runs)
          /\ \A i \in DOMAIN results :
                 /\ reopened[i] = stored_runs[i].conversation_id
                 /\ stored_runs[i].case_id = Dataset[i].case_id)

\* A run over two cases has reached DONE and written to the stores.
C8_Witness ==
    /\ pc = "DONE"
    /\ Len(Dataset) = 2 /\ Len(results) = 2
    /\ csv_files # at_start.csv_files

\* C9: the correct flag of every ScoredResult is true exactly when the
\* recorded actual label is string-equal to the expected label, and target and
\* output carry the expected and the actual label unchanged.
C9_ScoreIsStringEquality ==
    \A i \in DOMAIN results :
        /\ results[i].correct = (stored_runs[i].actual = ExpectedLabel(Dataset[i]))
        /\ results[i].target = ExpectedLabel(Dataset[i])
        /\ results[i].output = stored_runs[i].actual

\* The routing case r1 expecting Operational, run with a handoff to
\* Operational, has been scored correct, 1 of 1.
C9_Witness ==
    /\ pc = "DONE" /\ eval_kind = "handoff"
    /\ ROUTING_DATASET = <<RoutingCase("r1", "Transfer $50", "Operational")>>
    /\ response.results = <<[message |-> "Transfer $50", target |-> "Operational",
                             output |-> "Operational", correct |-> TRUE]>>
    /\ response.correct = 1 /\ response.total = 1
    /\ response.accuracy = [num |-> 1, den |-> 1]

\* C10: throughout the scoring loop 0 <= correct <= cases scored so far <=
\* number of dataset cases, and correct is the number of ScoredResults that are
\* correct; afterwards total is the number of dataset cases and the accuracy
\* is correct/total, or 0.0 when the dataset has no cases.
C10_CountsAndAccuracy ==
    /\ pc \in {"PHASE2_RELOAD_SCORE", "PERSIST", "DONE"} =>
          /\ 0 <= correct /\ correct <= Len(results) /\ Len(results) <= Len(Dataset)
          /\ correct = Cardinality({i \in DOMAIN results : results[i].correct})
    /\ pc \in {"PERSIST", "DONE"} =>
          /\ total = Len(Dataset)
          /\ total > 0 => acc.den > 0 /\ acc.num * total = correct * acc.den
          /\ total = 0 => acc = ZeroFloat
    /\ pc = "DONE" =>
          /\ response.accuracy = acc
          /\ response.correct = correct
          /\ response.total = total

\* A tool-call run over a dataset without cases has completed and persisted
\* a record with accuracy 0.0.
C10_Witness ==
    /\ pc = "DONE" /\ eval_kind = "tool"
    /\ TOOL_CALL_DATASET = <<>>
    /\ response.accuracy = ZeroFloat /\ response.total = 0
    /\ response.csv_path \in DOMAIN csv_files
    /\ appended # <<>> /\ appended[Len(appended)].accuracy = ZeroFloat

C12_GitLookupNeverAborts ==
    /\ ~(pc = "ERROR" /\ error = "git")
    /\ (eval_kind = "tool" /\ pc # "ERROR") => metadata # NoMetadata

\* C13: phase 1 creates one fresh session per case and records its identifier
\* in that case's RunRecord; phase 2 reopens, once per RunRecord and in phase 1
\* order, exactly the identifier recorded for that case; a reopened session
\* that returns zero items neither ends the run nor changes the case's score.
C13_SessionRoundTrip ==
    /\ [](/\ \A i \in DOMAIN stored_runs :
                stored_runs[i].conversation_id = ConversationId(clock, i)
          /\ \A i, j \in DOMAIN stored_runs :
                i # j => stored_runs[i].conversation_id # stored_runs[j].conversation_id
          /\ Len(reopened) = Len(results)
          /\ Len(reopened) <= Len(stored_runs)
          /\ \A i \in DOMAIN reopened : reopened[i] = stored_runs[i].conversation_id)
    /\ [][Len(reopened') = Len(reopened) + 1 =>
            LET k == Len(reopened')
            IN  /\ pc' = pc
                /\ stored_runs' = stored_runs
                /\ Len(stored_runs) = Len(Dataset)
                /\ reopened'[k] = stored_runs[k].conversation_id
                /\ Len(results') = k
                /\ results'[k].correct = (stored_runs[k].actual = stored_runs[k].expected)]_vars

\* A run over two cases has completed; the last reopened session returned no
\* items and its case is scored correct.
C13_Witness ==
    /\ pc = "DONE"
    /\ Len(reopened) = 2 /\ reopened[1] # reopened[2]
    /\ n_items = 0
    /\ results[2].correct

LastHandoff == CHOOSE i \in HandoffPositions : \A j \in HandoffPositions : j <= i

\* A run whose last active agent is the target its last handoff item declares.
HandoffsEndAtLastAgent ==
    /\ HandoffPositions # {}
    /\ DeclaredTarget(new_items[LastHandoff]) # "Unknown"
    /\ last_agent = DeclaredTarget(new_items[LastHandoff])

\* C14 as stated: whenever the item sequence contains handoff items, several
\* successive handoffs to different targets included, extract_routed_agent_name
\* returns the name of the run's last active agent.
C14_ReturnsLastActiveAgent ==
    (Returned("extract_routed_agent_name") /\ HandoffsEndAtLastAgent)
        => ret = <<last_agent>>

\* C14, amended: in a run whose last active agent is the target of its last
\* handoff, extract_routed_agent_name returns the name of the last active agent
\* exactly when the first and the last handoff item declare the same target (a
\* single handoff included); after successive handoffs to different targets it
\* returns the first target, which is not the agent that finally answered.
C14_LastAgentIffSameTarget ==
    (Returned("extract_routed_agent_name") /\ HandoffsEndAtLastAgent) =>
        /\ ret = <<DeclaredTarget(new_items[FirstHandoff])>>
        /\ (ret = <<last_agent>>) <=>
               (DeclaredTarget(new_items[FirstHandoff]) =
                    DeclaredTarget(new_items[LastHandoff]))

\* A run with a handoff to Operational followed by a handoff to Informational,
\* whose last active agent is Informational, has yielded Operational.
C14_Witness ==
    /\ Returned("extract_routed_agent_name")
    /\ HandoffsEndAtLastAgent
    /\ Cardinality(HandoffPositions) = 2
    /\ DeclaredTarget(new_items[FirstHandoff]) = "Operational"
    /\ last_agent = "Informational"
    /\ ret = <<"Operational">>

\* ------------------------------------- two requests on one history store
\* The development server handles each request in a thread of its own
\* (frontend/app.py:54-72, 131), so the append_history calls of two tool-call
\* runs can interleave between their file operations.

\* history.json just after open("w"): it exists and holds no bytes.
EmptyFile == [exists |-> TRUE, text |-> <<>>, unparsable |-> "empty"]

\* history.json after two open handles wrote over each other's bytes.
DamagedFile == [exists |-> TRUE, text |-> <<>>, unparsable |-> "overwritten"]

\* json.load accepts the file (a file that does not exist is not read).
Parsable(file) == "unparsable" \notin DOMAIN file

\* The history record of the run of request w, which scored n_correct of
\* n_total cases.
EntryOf(w, git, n_correct, n_total) ==
    HistoryRecord(build_run_metadata("gpt-4.1-mini", "TOOL_CALL_DATASET", "tool", w, git),
                  Accuracy(n_correct, n_total), n_correct, n_total, ToolCsvPath(w))

\* Both runs have written their CSV export and reached the append_history
\* call of tool_eval.py:182.
InitRace ==
    /\ typesImported \in BOOLEAN
    /\ ExtractIdle
    /\ ROUTING_DATASET = <<>>
    /\ TOOL_CALL_DATASET = <<>>
    /\ DriverInit
    /\ wpc = [w \in Writers |-> "APPEND"]
    /\ \E git \in [Writers -> {"ok", "CalledProcessError"}],
          n_total \in [Writers -> 0..MaxCases], n_correct \in [Writers -> 0..MaxCases] :
          /\ \A w \in Writers : n_correct[w] <= n_total[w]
          /\ wentry = [w \in Writers |-> EntryOf(w, git[w], n_correct[w], n_total[w])]
    /\ whistory = [w \in Writers |-> <<>>]
    /\ order = <<>>
    /\ overlapped = FALSE

\* history.py:26-27: load the stored history and append the entry to the
\* list; json.load raises on a file that holds no JSON document.
append_Load(w) ==
    /\ wpc[w] = "APPEND"
    /\ IF Parsable(history_file)
       THEN /\ whistory' = [whistory EXCEPT ![w] = LocalHistory(history_file, wentry[w])]
            /\ wpc' = [wpc EXCEPT ![w] = "LOADED"]
            /\ order' = Append(order, w)
            /\ overlapped' =
                  (overlapped \/ \E o \in Writers \ {w} : wpc[o] \in {"LOADED", "OPENED"})
       ELSE /\ wpc' = [wpc EXCEPT ![w] = "ERROR"]
            /\ UNCHANGED <<whistory, order, overlapped>>
    /\ UNCHANGED <<wentry, extract_vars, data_vars, store_vars, run_vars, ghost_vars>>

\* history.py:28-30: open("w") creates the file or truncates it.
append_Open(w) ==
    /\ wpc[w] = "LOADED"
    /\ history_file' = EmptyFile
    /\ wpc' = [wpc EXCEPT ![w] = "OPENED"]
    /\ UNCHANGED <<wentry, whistory, order, overlapped, extract_vars, data_vars, csv_files,
                   run_vars, ghost_vars>>

\* history.py:31: json.dump and the close of the file.  When the other request
\* wrote the file since this one opened it, the bytes of this write land over
\* the bytes of that one: the file holds this document, or no document.
append_Dump(w) ==
    /\ wpc[w] = "OPENED"
    /\ \E written \in (IF history_file = EmptyFile
                        THEN {Rewritten(whistory[w])}
                        ELSE {Rewritten(whistory[w]), DamagedFile}) :
          history_file' = written
    /\ wpc' = [wpc EXCEPT ![w] = "DONE"]
    /\ UNCHANGED <<wentry, whistory, order, overlapped, extract_vars, data_vars, csv_files,
                   run_vars, ghost_vars>>

NextRace ==
    \/ \E w \in Writers : append_Load(w)
    \/ \E w \in Writers : append_Open(w)
    \/ \E w \in Writers : append_Dump(w)

SpecRace == InitRace /\ [][NextRace]_vars

\* Both append_history calls have returned.
BothAppended == \A w \in Writers : wpc[w] = "DONE"

\* The store holds the records of both requests.
HoldsBoth ==
    /\ Parsable(history_file)
    /\ \A w \in Writers :
          \E i \in DOMAIN load_history(history_file) :
              load_history(history_file)[i] = wentry[w]

\* C15: when the appends of two runs interleave on the history store, each a
\* full load followed later by a full rewrite, an update is lost: once both
\* appends have completed the store does not hold both new records; with the
\* appends executed one at a time it holds both, in the order of the appends.
C15_LostUpdateIffInterleaved ==
    BothAppended =>
        /\ overlapped => ~HoldsBoth
        /\ ~overlapped =>
              /\ Parsable(history_file)
              /\ load_history(history_file) = <<wentry[order[1]], wentry[order[2]]>>

\* Both appends have completed and the store holds one record, that of the
\* second request; the record of the first is lost.
C15_Witness ==
    /\ BothAppended
    /\ overlapped
    /\ Parsable(history_file)
    /\ load_history(history_file) = <<wentry[2]>>

\* The name each shape yields for an item when tried on its own, in the order
\* of the chain: typed tool-call wrapper, type discriminator, function-call
\* output wrapper, function_call or tool_call attribute, function_name
\* attribute, bare name attribute of an item without target_agent.
ShapeNames(item, types) ==
    <<IF types /\ item.cls = "ToolCallItem" /\ GetAttr(item, "raw_item") # NONE
         THEN ObjName(item.raw_item) ELSE NONE,
      IF GetAttr(item, "type") = "tool_call_item" /\ GetAttr(item, "raw_item") # NONE
         THEN ObjName(item.raw_item) ELSE NONE,
      IF types /\ item.cls = "FunctionCallOutputItem"
         THEN (IF Truthy(GetAttr(item, "function_name"))
               THEN item.function_name ELSE GetAttr(item, "name"))
         ELSE NONE,
      IF GetAttr(item, "function_call") # NONE THEN ObjName(item.function_call)
         ELSE IF GetAttr(item, "tool_call") # NONE THEN ObjName(item.tool_call)
         ELSE NONE,
      GetAttr(item, "function_name"),
      IF HasAttr(item, "target_agent") THEN NONE ELSE GetAttr(item, "name")>>

\* The name of the first shape that yields a non-empty one, NONE when none does.
FirstNonEmpty(names) ==
    IF \E k \in DOMAIN names : Truthy(names[k])
    THEN names[CHOOSE k \in DOMAIN names :
                   Truthy(names[k]) /\ \A j \in 1..(k - 1) : ~Truthy(names[j])]
    ELSE NONE

\* The non-empty names of a sequence, each once, in first-seen order.
RECURSIVE FirstSeen(_)
FirstSeen(names) ==
    IF names = <<>> THEN <<>>
    ELSE LET front == FirstSeen(SubSeq(names, 1, Len(names) - 1))
             last == names[Len(names)]
         IN  IF Truthy(last) /\ \A i \in DOMAIN front : front[i] # last
             THEN Append(front, last)
             ELSE front

\* What the chain resolves for each item of the primary sequence.
ChainNames ==
    [k \in DOMAIN new_items |-> FirstNonEmpty(ShapeNames(new_items[k], typesImported))]

\* C16: for each item of the primary sequence extract_tool_calls takes the name
\* of the first shape, in the fixed order of the chain, that yields a non-empty
\* name; a later shape never replaces it; an item for which no shape yields a
\* non-empty name contributes nothing to the result.
C16_FirstShapeWins ==
    Returned("extract_tool_calls") =>
        LET names == ChainNames
            primary == FirstSeen(names)
        IN  /\ \A k \in DOMAIN new_items :
                  LET resolved == ResolvePrimary(new_items[k], typesImported)
                  IN  IF Truthy(names[k]) THEN resolved = names[k] ELSE ~Truthy(resolved)
            /\ Len(ret) >= Len(primary)
            /\ SubSeq(ret, 1, Len(primary)) = primary
            /\ all_items = <<>> => ret = primary

\* An item for which no shape yields a name, followed by an item for which
\* three shapes yield three different names, has given the name of the first
\* of these shapes alone.
C16_Witness ==
    /\ Returned("extract_tool_calls")
    /\ Len(new_items) = 2 /\ all_items = <<>>
    /\ \A k \in 1..6 : ~Truthy(ShapeNames(new_items[1], typesImported)[k])
    /\ Cardinality({n \in {ShapeNames(new_items[2], typesImported)[k] : k \in 1..6} :
                       Truthy(n)}) = 3
    /\ ret = <<FirstNonEmpty(ShapeNames(new_items[2], typesImported))>>

\* The run result whose primary sequence holds the items of both sequences.
AllInPrimary(rr) ==
    [rr EXCEPT !.new_items = ItemsOf(rr, "new_items") \o ItemsOf(rr, "all_items"),
               !.all_items = <<>>,
               !.missing = {}]

\* C17: the secondary pass recognises the same item shapes as the primary
\* pass: an item that appears in the secondary sequence is recorded exactly as
\* it would be if it appeared in the primary sequence.
C17_SecondaryPassSameShapes ==
    Returned("extract_tool_calls") =>
        ret = extract_tool_calls(AllInPrimary(RunResult), typesImported)

\* No two cases of the running driver's dataset share their case_id.
UniqueCaseIds ==
    \A i, j \in DOMAIN Dataset : i # j => Dataset[i].case_id # Dataset[j].case_id

\* The position of the first dataset case with the case_id of case i.
FirstWithIdOf(i) ==
    CHOOSE k \in DOMAIN Dataset :
        /\ Dataset[k].case_id = Dataset[i].case_id
        /\ \A j \in 1..(k - 1) : Dataset[j].case_id # Dataset[i].case_id

\* C18: the results list, and so the rows of the CSV export, has exactly one
\* entry per dataset case, in dataset order; the target of entry i is the
\* expected label of case i and its message is the prompt of the first dataset
\* case with the case_id of case i, which is the prompt of case i when the
\* case_ids of the dataset are unique.
C18_OneResultPerCaseInOrder ==
    /\ Len(results) <= Len(Dataset)
    /\ pc \in {"PERSIST", "DONE"} => Len(results) = Len(Dataset)
    /\ \A i \in DOMAIN results :
          /\ results[i].target = ExpectedLabel(Dataset[i])
          /\ results[i].message = Dataset[FirstWithIdOf(i)].prompt
          /\ UniqueCaseIds => results[i].message = Dataset[i].prompt
    /\ pc = "DONE" =>
          LET rows == csv_files[response.csv_path].rows
          IN  /\ response.results = results
              /\ Len(rows) = Len(Dataset)
              /\ \A i \in DOMAIN rows :
                    /\ rows[i].message = results[i].message
                    /\ rows[i].target = results[i].target
                    /\ rows[i].output = results[i].output

\* A run over two cases with different case_ids and different prompts has
\* completed; the second row of its CSV export carries the second prompt.
C18_Witness ==
    /\ pc = "DONE"
    /\ Len(Dataset) = 2 /\ UniqueCaseIds
    /\ Dataset[1].prompt # Dataset[2].prompt
    /\ csv_files[response.csv_path].rows[2].message = Dataset[2].prompt
    /\ csv_files[response.csv_path].rows[2].target = ExpectedLabel(Dataset[2])

====
